---------------------------- MODULE Spec2Model ----------------------------
(***************************************************************************)
(* Model of the Bloodbath interpreter: the reader (lexer), the value       *)
(* model, the builtin arithmetic, the arity-directed parser, the tree      *)
(* evaluator and the session environment.                                  *)
(*                                                                         *)
(* Text is a sequence of one-character strings.  A Rust Result is a record *)
(* with an ok field; an Option is a sequence of length 0 or 1.             *)
(***************************************************************************)
EXTENDS Integers, Sequences, FiniteSets, TLC

(***************************************************************************)
(* Characters.  Ascii lists the printable characters 32..126 in code       *)
(* order, so that the reader's range tests and its digit arithmetic        *)
(* are computed on the real character codes; the double quote, the         *)
(* backslash and the backquote are written by name.                        *)
(***************************************************************************)
Ascii ==
  << " ", "!", "dquote", "#", "$", "%", "&", "'", "(", ")", "*", "+", ",", "-",
     ".", "/", "0", "1", "2", "3", "4", "5", "6", "7", "8", "9", ":", ";",
     "<", "=", ">", "?", "@", "A", "B", "C", "D", "E", "F", "G", "H", "I",
     "J", "K", "L", "M", "N", "O", "P", "Q", "R", "S", "T", "U", "V", "W",
     "X", "Y", "Z", "[", "bslash", "]", "^", "_", "bquote", "a", "b", "c", "d", "e",
     "f", "g", "h", "i", "j", "k", "l", "m", "n", "o", "p", "q", "r", "s",
     "t", "u", "v", "w", "x", "y", "z", "{", "|", "}", "~" >>

Chars == {Ascii[i] : i \in 1..Len(Ascii)} \cup {"\t", "\n", "\r"}

OrdTable ==
  [c \in Chars |->
     IF c = "\t" THEN 9
     ELSE IF c = "\n" THEN 10
     ELSE IF c = "\r" THEN 13
     ELSE 31 + (CHOOSE i \in 1..Len(Ascii) : Ascii[i] = c)]

Ord(c) == OrdTable[c]

InRange(c, lo, hi) == Ord(lo) <= Ord(c) /\ Ord(c) <= Ord(hi)

(***************************************************************************)
(* ReaderError and Token.                                                  *)
(***************************************************************************)
EoF == [tag |-> "EoF", char |-> ""]
ExpectedADigit(c) == [tag |-> "ExpectedADigit", char |-> c]
UnexpectedCharacter(c) == [tag |-> "UnexpectedCharacter", char |-> c]

Identifier(name) == [tag |-> "Identifier", name |-> name]
IntegerConstant(n) == [tag |-> "IntegerConstant", value |-> n]
FloatConstant(n, d) == [tag |-> "FloatConstant", num |-> n, den |-> d]
LeftBrace == [tag |-> "LeftBrace"]
RightBrace == [tag |-> "RightBrace"]

(***************************************************************************)
(* f64 values are modelled as exact fractions num/den in lowest terms with *)
(* den > 0; den = 0 stands for the non-finite results of a float division  *)
(* by zero (num = 1: +inf, num = -1: -inf, num = 0: NaN).  The fractions   *)
(* the model reaches are small, where f64 arithmetic agrees with them up   *)
(* to rounding; the sign of zero is not modelled.                          *)
(***************************************************************************)
Abs(x) == IF x < 0 THEN -x ELSE x

Sgn(x) == IF x < 0 THEN -1 ELSE IF x > 0 THEN 1 ELSE 0

RECURSIVE Gcd(_, _)
Gcd(a, b) == IF b = 0 THEN a ELSE Gcd(b, a % b)

Frac(n, d) ==
  IF d = 0 THEN [num |-> Sgn(n), den |-> 0]
  ELSE LET g == Gcd(Abs(n), Abs(d))
       IN  [num |-> Sgn(d) * (n \div g), den |-> Abs(d) \div g]

(***************************************************************************)
(* Reader: the input text and a position (0-based, as in the code).        *)
(* peek yields the character, or NoChar for Err(ReaderError::EoF).         *)
(***************************************************************************)
NoChar == "EoF"

peek(input, position, amount) ==
  IF position + amount < Len(input) THEN input[position + amount + 1]
  ELSE NoChar

current(input, position) == peek(input, position, 0)

is_eof(input, position) == position >= Len(input)

is_separator(c) == c \in {" ", "\t", "\n", "\r", "\t"}

\* The brace tokens: Token::LeftBrace and Token::RightBrace are used by the
\* parser, and the reader that produces them is not among the sources.  A
\* brace is a token of its own and ends the number or identifier before it.
is_brace(c) == c \in {"{", "}"}

is_delimiter(c) == is_separator(c) \/ is_brace(c)

read_brace(input, position) ==
  [ok |-> TRUE,
   token |-> IF current(input, position) = "{" THEN LeftBrace ELSE RightBrace,
   position |-> position + 1,
   overflow |-> FALSE]

\* Fixed-width integers.  The widths are scaled down: I64Bits stands for the
\* 64 bits of whole, fractional and sign (i64), I32Bits for the 32 bits of
\* fractional_multiplier (an integer variable of no stated type: i32).
\* overflows tells that a result leaves the range: a build with overflow
\* checks (the debug profile) panics there, a build without them (the
\* release profile) goes on with the wrapping value.
I64Bits == 8

I32Bits == 5

MinInt(bits) == -(2 ^ (bits - 1))

MaxInt(bits) == 2 ^ (bits - 1) - 1

overflows(x, bits) == x < MinInt(bits) \/ x > MaxInt(bits)

wrapping(x, bits) == ((x - MinInt(bits)) % (2 ^ bits)) + MinInt(bits)

\* overflow: an integer operation on the way to this result overflowed.
ReadErr(e, position) ==
  [ok |-> FALSE, err |-> e, position |-> position, overflow |-> FALSE]
ReadOk(t, position) ==
  [ok |-> TRUE, token |-> t, position |-> position, overflow |-> FALSE]

Overflowed(r, o) == [r EXCEPT !.overflow = @ \/ o]

is_digit_value(digit) == ~(digit < 0 \/ digit > 9)

\* The loop over the whole part (reader.rs 68-81).  Yields either a finished
\* result (done) or the position and magnitude at which the loop was left.
RECURSIVE read_whole(_, _, _, _)
read_whole(input, position, sign, whole) ==
  LET c == current(input, position) IN
  IF c = NoChar
    THEN [done |-> TRUE, res |-> ReadErr(EoF, position), overflow |-> FALSE]
  ELSE IF is_delimiter(c) \/ c = "."
    THEN [done |-> FALSE, position |-> position, whole |-> whole,
          overflow |-> FALSE]
  ELSE LET digit == Ord(c) - Ord("0") IN
    IF ~is_digit_value(digit)
      THEN [done |-> TRUE, res |-> ReadErr(ExpectedADigit(c), position),
            overflow |-> FALSE]
    ELSE
      LET times_ten == whole * 10
          plus_digit == wrapping(times_ten, I64Bits) + digit
          o == overflows(times_ten, I64Bits) \/ overflows(plus_digit, I64Bits)
          next_whole == wrapping(plus_digit, I64Bits)
      IN
      IF current(input, position + 1) = NoChar
        THEN LET signed == sign * next_whole IN
          [done |-> TRUE,
           res |-> Overflowed(
                     ReadOk(IntegerConstant(wrapping(signed, I64Bits)),
                            position + 1),
                     o \/ overflows(signed, I64Bits)),
           overflow |-> FALSE]
      ELSE LET rest == read_whole(input, position + 1, sign, next_whole) IN
        IF rest.done
          THEN [rest EXCEPT !.res = Overflowed(@, o)]
        ELSE [rest EXCEPT !.overflow = @ \/ o]

\* The loop over the fractional part (reader.rs 88-101).
RECURSIVE read_fractional(_, _, _, _)
read_fractional(input, position, fractional, fractional_multiplier) ==
  LET c == current(input, position) IN
  IF c = NoChar
    THEN [ok |-> FALSE, err |-> EoF, position |-> position,
          overflow |-> FALSE]
  ELSE IF is_delimiter(c)
    THEN [ok |-> TRUE, position |-> position, fractional |-> fractional,
          fractional_multiplier |-> fractional_multiplier,
          overflow |-> FALSE]
  ELSE LET digit == Ord(c) - Ord("0") IN
    IF ~is_digit_value(digit)
      THEN [ok |-> FALSE, err |-> ExpectedADigit(c), position |-> position,
            overflow |-> FALSE]
    ELSE
      LET times_ten == fractional * 10
          plus_digit == wrapping(times_ten, I64Bits) + digit
          multiplied == fractional_multiplier * 10
          o == \/ overflows(times_ten, I64Bits)
               \/ overflows(plus_digit, I64Bits)
               \/ overflows(multiplied, I32Bits)
      IN
      IF current(input, position + 1) = NoChar
        THEN [ok |-> TRUE, position |-> position + 1,
              fractional |-> wrapping(plus_digit, I64Bits),
              fractional_multiplier |-> wrapping(multiplied, I32Bits),
              overflow |-> o]
      ELSE Overflowed(read_fractional(input, position + 1,
                                      wrapping(plus_digit, I64Bits),
                                      wrapping(multiplied, I32Bits)),
                      o)

\* sign as f64 * (whole as f64 + fractional as f64 / multiplier as f64)
float_of_parts(sign, whole, fractional, fractional_multiplier) ==
  Frac(sign * (whole * fractional_multiplier + fractional),
       fractional_multiplier)

FloatToken(q) == FloatConstant(q.num, q.den)

\* read_number after the loop over the fractional part left f
\* (reader.rs 104-109).
read_float(sign, w, f) ==
  IF ~f.ok
    THEN Overflowed(ReadErr(f.err, f.position), w.overflow \/ f.overflow)
  ELSE Overflowed(
         ReadOk(FloatToken(float_of_parts(sign, w.whole, f.fractional,
                                          f.fractional_multiplier)),
                f.position),
         w.overflow \/ f.overflow)

\* read_number after the loop over the whole part left w (reader.rs 83-112).
read_after_whole(input, sign, w) ==
  IF w.done THEN w.res
  ELSE IF current(input, w.position) = "."
    THEN IF current(input, w.position + 1) = NoChar
           THEN Overflowed(ReadErr(EoF, w.position + 1), w.overflow)
         ELSE read_float(sign, w,
                         read_fractional(input, w.position + 1, 0, 1))
  ELSE Overflowed(ReadOk(IntegerConstant(wrapping(sign * w.whole, I64Bits)),
                         w.position),
                  w.overflow \/ overflows(sign * w.whole, I64Bits))

read_number(input, position) ==
  IF current(input, position) = NoChar THEN ReadErr(EoF, position)
  ELSE IF current(input, position) # "-"
    THEN read_after_whole(input, 1, read_whole(input, position, 1, 0))
  ELSE IF current(input, position + 1) = NoChar
    THEN ReadErr(EoF, position + 1)
  ELSE read_after_whole(input, -1, read_whole(input, position + 1, -1, 0))

is_legal(c) ==
  \/ InRange(c, "a", "z")
  \/ InRange(c, "A", "Z")
  \/ InRange(c, "0", "9")
  \/ InRange(c, "!", "!")
  \/ InRange(c, "#", "/")
  \/ InRange(c, ":", ":")
  \/ InRange(c, "<", "@")
  \/ InRange(c, "bslash", "bslash")
  \/ InRange(c, "^", "bquote")
  \/ InRange(c, "|", "|")
  \/ InRange(c, "~", "~")

RECURSIVE read_identifier_from(_, _, _)
read_identifier_from(input, position, identifier) ==
  LET c == current(input, position) IN
  IF c = NoChar THEN ReadErr(EoF, position)
  ELSE IF ~is_legal(c) THEN ReadErr(UnexpectedCharacter(c), position)
  ELSE LET n == current(input, position + 1) IN
    IF n = NoChar \/ is_delimiter(n)
      THEN ReadOk(Identifier(Append(identifier, c)), position + 1)
    ELSE read_identifier_from(input, position + 1, Append(identifier, c))

read_identifier(input, position) == read_identifier_from(input, position, <<>>)

\* skip_separators: the position after the run of separators, or the EoF
\* error when it is entered at the end of the input.
RECURSIVE skip_separators(_, _)
skip_separators(input, position) ==
  LET c == current(input, position) IN
  IF c = NoChar THEN [ok |-> FALSE, err |-> EoF, position |-> position]
  ELSE IF ~is_separator(c) THEN [ok |-> TRUE, position |-> position]
  ELSE IF current(input, position + 1) = NoChar
    THEN [ok |-> TRUE, position |-> position + 1]
  ELSE skip_separators(input, position + 1)

starts_number(input, position) ==
  LET c == current(input, position) IN
  IF c = NoChar THEN [ok |-> FALSE, err |-> EoF]
  ELSE IF InRange(c, "0", "9") THEN [ok |-> TRUE, number |-> TRUE]
  ELSE IF c # "-" THEN [ok |-> TRUE, number |-> FALSE]
  ELSE LET n == peek(input, position, 1) IN
    IF n = NoChar THEN [ok |-> FALSE, err |-> EoF]
    ELSE [ok |-> TRUE, number |-> InRange(n, "0", "9")]

\* The result of tokenise: the tokens, or the error; read is the local
\* token vector at the moment of the error, which the code drops; overflow
\* tells that reading a number overflowed on the way.
TokensOk(tokens) ==
  [ok |-> TRUE, tokens |-> tokens, err |-> EoF, read |-> tokens,
   overflow |-> FALSE]
TokensErr(e, read) ==
  [ok |-> FALSE, tokens |-> <<>>, err |-> e, read |-> read,
   overflow |-> FALSE]

\* The token read at position (reader.rs 170-176).
read_token(input, position) ==
  IF current(input, position) = NoChar THEN ReadErr(EoF, position)
  ELSE IF is_brace(current(input, position))
    THEN read_brace(input, position)
  ELSE IF ~starts_number(input, position).ok
    THEN ReadErr(starts_number(input, position).err, position)
  ELSE IF starts_number(input, position).number
    THEN read_number(input, position)
  ELSE read_identifier(input, position)

RECURSIVE tokenise_from(_, _, _, _)

\* The end of the loop body, after the second skip_separators left t.
tokenise_skipped(input, tokens, overflow, t) ==
  IF ~t.ok THEN Overflowed(TokensErr(t.err, tokens), overflow)
  ELSE tokenise_from(input, t.position, tokens, overflow)

\* The loop body after the token was read as r (reader.rs 173-180).
tokenise_push(input, tokens, overflow, r) ==
  IF ~r.ok
    THEN Overflowed(TokensErr(r.err, tokens), overflow \/ r.overflow)
  ELSE IF is_eof(input, r.position)
    THEN Overflowed(TokensOk(Append(tokens, r.token)),
                    overflow \/ r.overflow)
  ELSE tokenise_skipped(input, Append(tokens, r.token),
                        overflow \/ r.overflow,
                        skip_separators(input, r.position))

\* The loop body after skip_separators left s (reader.rs 170-176).
tokenise_at(input, tokens, overflow, s) ==
  IF ~s.ok THEN Overflowed(TokensErr(s.err, tokens), overflow)
  ELSE tokenise_push(input, tokens, overflow, read_token(input, s.position))

tokenise_from(input, position, tokens, overflow) ==
  IF is_eof(input, position) THEN Overflowed(TokensOk(tokens), overflow)
  ELSE tokenise_at(input, tokens, overflow, skip_separators(input, position))

tokenise(input) == tokenise_from(input, 0, <<>>, FALSE)

(***************************************************************************)
(* Object: the runtime value.  A Function names its native implementation; *)
(* each registered builtin is one shared callable, compared by identity.   *)
(* Integer values are mathematical integers: within the model's bounds     *)
(* they stay far inside the 64-bit range.                                  *)
(***************************************************************************)
Noop == [tag |-> "Noop"]
Integer(n) == [tag |-> "Integer", value |-> n]
Float(n, d) == [tag |-> "Float", num |-> n, den |-> d]
Function(argument_count, implementation) ==
  [tag |-> "Function", argument_count |-> argument_count,
   implementation |-> implementation]

\* The outcome of a native call that does not return: the thread panics.
Panic == [tag |-> "Panic"]

FloatOf(q) == Float(q.num, q.den)

IsNaN(x) == x.den = 0 /\ x.num = 0

f64_add(x, y) ==
  IF IsNaN(x) \/ IsNaN(y) THEN Frac(0, 0)
  ELSE IF x.den = 0 /\ y.den = 0
    THEN (IF x.num = y.num THEN Frac(x.num, 0) ELSE Frac(0, 0))
  ELSE IF x.den = 0 THEN Frac(x.num, 0)
  ELSE IF y.den = 0 THEN Frac(y.num, 0)
  ELSE Frac(x.num * y.den + y.num * x.den, x.den * y.den)

f64_neg(x) == [num |-> -x.num, den |-> x.den]

f64_sub(x, y) == f64_add(x, f64_neg(y))

f64_mul(x, y) ==
  IF IsNaN(x) \/ IsNaN(y) THEN Frac(0, 0)
  ELSE IF x.den = 0 \/ y.den = 0 THEN Frac(Sgn(x.num) * Sgn(y.num), 0)
  ELSE Frac(x.num * y.num, x.den * y.den)

f64_div(x, y) ==
  IF IsNaN(x) \/ IsNaN(y) THEN Frac(0, 0)
  ELSE IF x.den = 0 /\ y.den = 0 THEN Frac(0, 0)
  ELSE IF x.den = 0 THEN Frac(x.num * (IF y.num < 0 THEN -1 ELSE 1), 0)
  ELSE IF y.den = 0 THEN Frac(0, 1)
  ELSE IF y.num = 0 THEN Frac(Sgn(x.num), 0)
  ELSE Frac(x.num * y.den, x.den * y.num)

as_f64(a) == Frac(a, 1)

is_integer(x) == x.tag = "Integer"
is_float(x) == x.tag = "Float"
f64_of(x) == [num |-> x.num, den |-> x.den]

\* i64 remainder and quotient (truncating), for a non-zero divisor.
i64_rem(a, b) == Sgn(a) * (Abs(a) % Abs(b))
i64_quot(a, b) == Sgn(a) * Sgn(b) * (Abs(a) \div Abs(b))

add(args) ==
  IF is_integer(args[1]) THEN
    IF is_integer(args[2]) THEN Integer(args[1].value + args[2].value)
    ELSE IF is_float(args[2])
      THEN FloatOf(f64_add(as_f64(args[1].value), f64_of(args[2])))
    ELSE Noop
  ELSE IF is_float(args[1]) THEN
    IF is_integer(args[2])
      THEN FloatOf(f64_add(f64_of(args[1]), as_f64(args[2].value)))
    ELSE IF is_float(args[2])
      THEN FloatOf(f64_add(f64_of(args[1]), f64_of(args[2])))
    ELSE Noop
  ELSE Noop

sub(args) ==
  IF is_integer(args[1]) THEN
    IF is_integer(args[2]) THEN Integer(args[1].value - args[2].value)
    ELSE IF is_float(args[2])
      THEN FloatOf(f64_sub(as_f64(args[1].value), f64_of(args[2])))
    ELSE Noop
  ELSE IF is_float(args[1]) THEN
    IF is_integer(args[2])
      THEN FloatOf(f64_sub(f64_of(args[1]), as_f64(args[2].value)))
    ELSE IF is_float(args[2])
      THEN FloatOf(f64_sub(f64_of(args[1]), f64_of(args[2])))
    ELSE Noop
  ELSE Noop

mul(args) ==
  IF is_integer(args[1]) THEN
    IF is_integer(args[2]) THEN Integer(args[1].value * args[2].value)
    ELSE IF is_float(args[2])
      THEN FloatOf(f64_mul(as_f64(args[1].value), f64_of(args[2])))
    ELSE Noop
  ELSE IF is_float(args[1]) THEN
    IF is_integer(args[2])
      THEN FloatOf(f64_mul(f64_of(args[1]), as_f64(args[2].value)))
    ELSE IF is_float(args[2])
      THEN FloatOf(f64_mul(f64_of(args[1]), f64_of(args[2])))
    ELSE Noop
  ELSE Noop

\* a % b with b = 0 panics (remainder with a divisor of zero) before the
\* quotient is computed.
div(args) ==
  IF is_integer(args[1]) THEN
    IF is_integer(args[2]) THEN
      IF args[2].value = 0 THEN Panic
      ELSE IF i64_rem(args[1].value, args[2].value) = 0
        THEN Integer(i64_quot(args[1].value, args[2].value))
      ELSE FloatOf(f64_div(as_f64(args[1].value), as_f64(args[2].value)))
    ELSE IF is_float(args[2])
      THEN FloatOf(f64_div(as_f64(args[1].value), f64_of(args[2])))
    ELSE Noop
  ELSE IF is_float(args[1]) THEN
    IF is_integer(args[2])
      THEN FloatOf(f64_div(f64_of(args[1]), as_f64(args[2].value)))
    ELSE IF is_float(args[2])
      THEN FloatOf(f64_div(f64_of(args[1]), f64_of(args[2])))
    ELSE Noop
  ELSE Noop

\* call with Noop taken for the number zero.
noop_as_zero(x) == IF x = Noop THEN Integer(0) ELSE x

call_noop_as_zero(implementation, arguments) ==
  LET zeroed == <<noop_as_zero(arguments[1]), noop_as_zero(arguments[2])>> IN
  CASE implementation = "add" -> add(zeroed)
    [] implementation = "sub" -> sub(zeroed)
    [] implementation = "mul" -> mul(zeroed)
    [] implementation = "div" -> div(zeroed)

\* FunctionImplementation::call
call(implementation, arguments) ==
  CASE implementation = "add" -> add(arguments)
    [] implementation = "sub" -> sub(arguments)
    [] implementation = "mul" -> mul(arguments)
    [] implementation = "div" -> div(arguments)

(***************************************************************************)
(* The environment: a map from names to Objects; its domain is the set of  *)
(* bound names.                                                            *)
(***************************************************************************)
\* variable_set that keeps the value of a name that is already bound.
variable_set_if_absent(env, variable_name, new_value) ==
  [n \in DOMAIN env \cup {variable_name} |->
     IF n \in DOMAIN env THEN env[n] ELSE new_value]

\* variable_set replacing the map with the one binding.
variable_set_alone(env, variable_name, new_value) ==
  [n \in {variable_name} |-> new_value]

variable_set(env, variable_name, new_value) ==
  [n \in DOMAIN env \cup {variable_name} |->
     IF n = variable_name THEN new_value ELSE env[n]]

\* variable_get that does not bind the name it did not find.
variable_get_no_bind(env, variable_name) ==
  IF variable_name \in DOMAIN env
    THEN [value |-> env[variable_name], env |-> env]
  ELSE [value |-> Noop, env |-> env]

variable_get(env, variable_name) ==
  IF variable_name \in DOMAIN env
    THEN [value |-> env[variable_name], env |-> env]
  ELSE [value |-> Noop, env |-> variable_set(env, variable_name, Noop)]

register(env, function_name, argument_count, builtin) ==
  variable_set(env, function_name, Function(argument_count, builtin))

EmptyEnvironment == [n \in {} |-> Noop]

new ==
  register(
    register(
      register(
        register(EmptyEnvironment, <<"+">>, 2, "add"),
        <<"-">>, 2, "sub"),
      <<"*">>, 2, "mul"),
    <<"/">>, 2, "div")

(***************************************************************************)
(* Expression and ParserError.                                             *)
(***************************************************************************)
Constant(value) == [tag |-> "Constant", value |-> value]
Variable(name) == [tag |-> "Variable", name |-> name]
Compound(expressions) == [tag |-> "Compound", expressions |-> expressions]
Set(name, value) == [tag |-> "Set", name |-> name, value |-> value]
FunctionCall(implementation, args) ==
  [tag |-> "FunctionCall", implementation |-> implementation, args |-> args]
If(condition, if_true, otherwise) ==
  [tag |-> "If", condition |-> condition, if_true |-> if_true,
   otherwise |-> otherwise]

Context(what, argument_count, name, got) ==
  [what |-> what, argument_count |-> argument_count, name |-> name,
   got |-> got]

NoContext == Context("", 0, <<>>, 0)

ReadingFailed(e) ==
  [tag |-> "ReadingFailed", reader |-> e, context |-> NoContext]
ExpectedAnExpression(c) ==
  [tag |-> "ExpectedAnExpression", reader |-> EoF, context |-> c]
ExpectedAnIdentifier(c) ==
  [tag |-> "ExpectedAnIdentifier", reader |-> EoF, context |-> c]
UnterminatedCompoundExpression ==
  [tag |-> "UnterminatedCompoundExpression", reader |-> EoF,
   context |-> NoContext]
UnexpectedBrace ==
  [tag |-> "UnexpectedBrace", reader |-> EoF, context |-> NoContext]

KwNoop == <<"n", "o", "o", "p">>
KwIdentity == <<"i", "d", "e", "n", "t", "i", "t", "y">>
KwSet == <<"s", "e", "t">>
KwIf == <<"i", "f">>
KwThen == <<"t", "h", "e", "n">>
KwElse == <<"e", "l", "s", "e">>

\* A ParserResult together with what the call leaves behind in its two
\* mutable arguments: the rest of the tokens and the environment.
POk(expr, tokens, env) ==
  [ok |-> TRUE, expr |-> expr, err |-> UnexpectedBrace, tokens |-> tokens,
   env |-> env]
PErr(err, tokens, env) ==
  [ok |-> FALSE, expr |-> Constant(Noop), err |-> err, tokens |-> tokens,
   env |-> env]

expect_keyword(tokens, expected_name) ==
  IF tokens = <<>> THEN [ok |-> FALSE, tokens |-> tokens]
  ELSE [ok |-> Head(tokens).tag = "Identifier"
               /\ Head(tokens).name = expected_name,
        tokens |-> Tail(tokens)]

check_keyword(tokens, expected_name) ==
  IF tokens # <<>> /\ Head(tokens).tag = "Identifier"
     /\ Head(tokens).name = expected_name
    THEN [found |-> TRUE, tokens |-> Tail(tokens)]
  ELSE [found |-> FALSE, tokens |-> tokens]

RECURSIVE parse_expression(_, _)
RECURSIVE parse_arguments(_, _, _, _, _, _)
RECURSIVE parse_compound_loop(_, _, _)

\* parse_identity parsing what follows as an expression of its own, so that
\* a name bound to a Function is called.
parse_identity_invoking(env, tokens) ==
  IF tokens = <<>>
    THEN PErr(ExpectedAnExpression(Context("identity", 0, <<>>, 0)),
              tokens, env)
  ELSE parse_expression(env, tokens)

parse_identity(env, tokens) ==
  IF tokens = <<>>
    THEN PErr(ExpectedAnExpression(Context("identity", 0, <<>>, 0)),
              tokens, env)
  ELSE LET t == Head(tokens) IN
    CASE t.tag = "Identifier" ->
           IF t.name = KwNoop THEN POk(Constant(Noop), Tail(tokens), env)
           ELSE POk(Variable(t.name), Tail(tokens), env)
      [] t.tag = "IntegerConstant" ->
           POk(Constant(Integer(t.value)), Tail(tokens), env)
      [] t.tag = "FloatConstant" ->
           POk(Constant(Float(t.num, t.den)), Tail(tokens), env)
      [] t.tag \in {"LeftBrace", "RightBrace"} ->
           PErr(UnexpectedBrace, Tail(tokens), env)

\* The argument loop of parse_variable (interpreter.rs 157-168).
parse_arguments(env, name, tokens, argument_count, implementation, arguments) ==
  IF Len(arguments) = argument_count
    THEN POk(FunctionCall(implementation, arguments), tokens, env)
  ELSE IF tokens = <<>>
    THEN PErr(ExpectedAnExpression(
                Context("arguments", argument_count, name, Len(arguments))),
              tokens, env)
  ELSE LET r == parse_expression(env, tokens) IN
    IF ~r.ok THEN r
    ELSE parse_arguments(r.env, name, r.tokens, argument_count,
                         implementation, Append(arguments, r.expr))

\* parse_variable with the argument loop running once too often.
parse_variable_one_more(env, name, tokens) ==
  LET g == variable_get(env, name)
      variable_value == g.value
  IN
  IF variable_value.tag = "Function"
    THEN parse_arguments(g.env, name, tokens,
                         variable_value.argument_count + 1,
                         variable_value.implementation, <<>>)
  ELSE POk(Variable(name), tokens, g.env)

\* parse_variable putting the binding read while parsing in the place of
\* the reference.
parse_variable_resolved(env, name, tokens) ==
  LET g == variable_get(env, name)
      variable_value == g.value
  IN
  IF variable_value.tag = "Function"
    THEN parse_arguments(g.env, name, tokens, variable_value.argument_count,
                         variable_value.implementation, <<>>)
  ELSE POk(Constant(variable_value), tokens, g.env)

parse_variable(env, name, tokens) ==
  LET g == variable_get(env, name)
      variable_value == g.value
  IN
  IF variable_value.tag = "Function"
    THEN parse_arguments(g.env, name, tokens, variable_value.argument_count,
                         variable_value.implementation, <<>>)
  ELSE POk(Variable(name), tokens, g.env)

\* The loop of parse_compound letting a child that sets a name to a constant
\* or to the binding of another name take effect on the parsing of the
\* children after it.
parse_compound_loop_eager(env, tokens, expressions) ==
  IF Head(tokens) = RightBrace
    THEN POk(Compound(expressions), Tail(tokens), env)
  ELSE LET r == parse_expression(env, tokens) IN
    IF ~r.ok THEN r
    ELSE IF r.tokens = <<>>
      THEN PErr(UnterminatedCompoundExpression, r.tokens, r.env)
    ELSE parse_compound_loop(
           IF r.expr.tag = "Set" /\ r.expr.value.tag = "Variable"
             THEN variable_set(r.env, r.expr.name,
                               variable_get(r.env, r.expr.value.name).value)
           ELSE IF r.expr.tag = "Set" /\ r.expr.value.tag = "Constant"
             THEN variable_set(r.env, r.expr.name, r.expr.value.value)
           ELSE r.env,
           r.tokens, Append(expressions, r.expr))

\* The loop of parse_compound closing the compound where the tokens run out
\* after a child.
parse_compound_loop_closing(env, tokens, expressions) ==
  IF Head(tokens) = RightBrace
    THEN POk(Compound(expressions), Tail(tokens), env)
  ELSE LET r == parse_expression(env, tokens) IN
    IF ~r.ok THEN r
    ELSE IF r.tokens = <<>>
      THEN POk(Compound(Append(expressions, r.expr)), r.tokens, r.env)
    ELSE parse_compound_loop(r.env, r.tokens, Append(expressions, r.expr))

\* The loop of parse_compound (interpreter.rs 181-192); tokens is not empty
\* when it is entered.
parse_compound_loop(env, tokens, expressions) ==
  IF Head(tokens) = RightBrace
    THEN POk(Compound(expressions), Tail(tokens), env)
  ELSE LET r == parse_expression(env, tokens) IN
    IF ~r.ok THEN r
    ELSE IF r.tokens = <<>>
      THEN PErr(UnterminatedCompoundExpression, r.tokens, r.env)
    ELSE parse_compound_loop(r.env, r.tokens, Append(expressions, r.expr))

parse_compound(env, tokens) ==
  IF tokens = <<>> THEN PErr(UnterminatedCompoundExpression, tokens, env)
  ELSE parse_compound_loop(env, tokens, <<>>)

parse_set(env, tokens) ==
  IF tokens = <<>>
    THEN PErr(ExpectedAnIdentifier(Context("set", 0, <<>>, 0)), tokens, env)
  ELSE IF Head(tokens).tag # "Identifier"
    THEN PErr(ExpectedAnIdentifier(Context("set", 0, <<>>, 0)),
              Tail(tokens), env)
  ELSE IF Tail(tokens) = <<>>
    THEN PErr(ExpectedAnExpression(Context("set", 0, <<>>, 0)),
              Tail(tokens), env)
  ELSE LET new_value == parse_expression(env, Tail(tokens)) IN
    IF ~new_value.ok THEN new_value
    ELSE POk(Set(Head(tokens).name, new_value.expr), new_value.tokens,
             new_value.env)

parse_if(env, tokens) ==
  IF tokens = <<>>
    THEN PErr(ExpectedAnExpression(Context("if", 0, <<>>, 0)), tokens, env)
  ELSE LET condition == parse_expression(env, tokens) IN
    IF ~condition.ok THEN condition
    ELSE LET k == expect_keyword(condition.tokens, KwThen) IN
      IF ~k.ok
        THEN PErr(ExpectedAnIdentifier(Context("then", 0, <<>>, 0)),
                  k.tokens, condition.env)
      ELSE IF k.tokens = <<>>
        THEN PErr(ExpectedAnExpression(Context("then", 0, <<>>, 0)),
                  k.tokens, condition.env)
      ELSE LET if_true == parse_expression(condition.env, k.tokens) IN
        IF ~if_true.ok THEN if_true
        ELSE LET e == check_keyword(if_true.tokens, KwElse) IN
          IF ~e.found
            THEN POk(If(condition.expr, if_true.expr, <<>>), e.tokens,
                     if_true.env)
          ELSE IF e.tokens = <<>>
            THEN PErr(ExpectedAnExpression(Context("else", 0, <<>>, 0)),
                      e.tokens, if_true.env)
          ELSE LET otherwise == parse_expression(if_true.env, e.tokens) IN
            IF ~otherwise.ok THEN otherwise
            ELSE POk(If(condition.expr, if_true.expr, <<otherwise.expr>>),
                     otherwise.tokens, otherwise.env)

\* parse_expression looking at the token noop without removing it.
parse_expression_peeking(env, tokens) ==
  LET t == Head(tokens)
      rest == Tail(tokens)
  IN
  CASE t.tag = "Identifier" ->
         (CASE t.name = KwNoop -> POk(Constant(Noop), tokens, env)
            [] t.name = KwIdentity -> parse_identity(env, rest)
            [] t.name = KwSet -> parse_set(env, rest)
            [] t.name = KwIf -> parse_if(env, rest)
            [] OTHER -> parse_variable(env, t.name, rest))
    [] t.tag = "IntegerConstant" -> POk(Constant(Integer(t.value)), rest, env)
    [] t.tag = "FloatConstant" ->
         POk(Constant(Float(t.num, t.den)), rest, env)
    [] t.tag = "LeftBrace" -> parse_compound(env, rest)
    [] t.tag = "RightBrace" -> PErr(UnexpectedBrace, rest, env)

\* tokens is not empty: every caller tests it before the call.
parse_expression(env, tokens) ==
  LET t == Head(tokens)
      rest == Tail(tokens)
  IN
  CASE t.tag = "Identifier" ->
         (CASE t.name = KwNoop -> POk(Constant(Noop), rest, env)
            [] t.name = KwIdentity -> parse_identity(env, rest)
            [] t.name = KwSet -> parse_set(env, rest)
            [] t.name = KwIf -> parse_if(env, rest)
            [] OTHER -> parse_variable(env, t.name, rest))
    [] t.tag = "IntegerConstant" -> POk(Constant(Integer(t.value)), rest, env)
    [] t.tag = "FloatConstant" ->
         POk(Constant(Float(t.num, t.den)), rest, env)
    [] t.tag = "LeftBrace" -> parse_compound(env, rest)
    [] t.tag = "RightBrace" -> PErr(UnexpectedBrace, rest, env)

(***************************************************************************)
(* Expression::evaluate.  The result carries the value (Panic when a       *)
(* native call panicked and the evaluation was unwound), the environment   *)
(* it leaves, and the log of the reads, writes and calls it made, in the   *)
(* order it made them.                                                     *)
(***************************************************************************)
GetEvent(name, value) ==
  [ev |-> "get", name |-> name, value |-> value, arguments |-> <<>>]
SetEvent(name, value) ==
  [ev |-> "set", name |-> name, value |-> value, arguments |-> <<>>]
CallEvent(implementation, arguments, value) ==
  [ev |-> "call", name |-> <<implementation>>, value |-> value,
   arguments |-> arguments]

EResult(value, env, log) == [value |-> value, env |-> env, log |-> log]

\* The If arm taking the condition to be false when it is a zero as well.
condition_is_noop_or_zero(value) ==
  value \in {Noop, Integer(0), Float(0, 1)}

\* The outer match of the If arm: Object::Noop, or anything else.
condition_is_noop(value) == value = Noop

RECURSIVE evaluate(_, _)
RECURSIVE evaluate_compound(_, _, _, _)
RECURSIVE evaluate_args(_, _, _, _)

\* The Compound loop evaluating the children and never assigning result.
evaluate_compound_discard(expressions, env, result, log) ==
  IF expressions = <<>> THEN EResult(result, env, log)
  ELSE LET r == evaluate(Head(expressions), env) IN
    IF r.value = Panic THEN EResult(Panic, r.env, log \o r.log)
    ELSE evaluate_compound(Tail(expressions), r.env, result, log \o r.log)

\* The loop of the Compound arm (interpreter.rs 24-30).
evaluate_compound(expressions, env, result, log) ==
  IF expressions = <<>> THEN EResult(result, env, log)
  ELSE LET r == evaluate(Head(expressions), env) IN
    IF r.value = Panic THEN EResult(Panic, r.env, log \o r.log)
    ELSE evaluate_compound(Tail(expressions), r.env, r.value, log \o r.log)

\* The arguments evaluated from the last to the first.
evaluate_args_right_to_left(args, env, values, log) ==
  IF args = <<>> THEN [values |-> values, env |-> env, log |-> log,
                       panicked |-> FALSE]
  ELSE LET r == evaluate(args[Len(args)], env) IN
    IF r.value = Panic
      THEN [values |-> values, env |-> r.env, log |-> log \o r.log,
            panicked |-> TRUE]
    ELSE evaluate_args(SubSeq(args, 1, Len(args) - 1), r.env,
                       <<r.value>> \o values, log \o r.log)

\* args.iter().map(|x| x.evaluate(interpreter)).collect()
evaluate_args(args, env, values, log) ==
  IF args = <<>> THEN [values |-> values, env |-> env, log |-> log,
                       panicked |-> FALSE]
  ELSE LET r == evaluate(Head(args), env) IN
    IF r.value = Panic
      THEN [values |-> values, env |-> r.env, log |-> log \o r.log,
            panicked |-> TRUE]
    ELSE evaluate_args(Tail(args), r.env, Append(values, r.value),
                       log \o r.log)

\* evaluate running the else-branch as well after the then-branch was taken.
evaluate_both_branches(self, env) ==
  CASE self.tag = "Constant" -> EResult(self.value, env, <<>>)
    [] self.tag = "Variable" ->
         LET g == variable_get(env, self.name) IN
         EResult(g.value, g.env, <<GetEvent(self.name, g.value)>>)
    [] self.tag = "Compound" ->
         evaluate_compound(self.expressions, env, Noop, <<>>)
    [] self.tag = "Set" ->
         LET value == evaluate(self.value, env) IN
         IF value.value = Panic THEN value
         ELSE EResult(value.value,
                      variable_set(value.env, self.name, value.value),
                      Append(value.log, SetEvent(self.name, value.value)))
    [] self.tag = "FunctionCall" ->
         LET args == evaluate_args(self.args, env, <<>>, <<>>) IN
         IF args.panicked THEN EResult(Panic, args.env, args.log)
         ELSE LET value == call(self.implementation, args.values) IN
           EResult(value, args.env,
                   Append(args.log,
                          CallEvent(self.implementation, args.values, value)))
    [] self.tag = "If" ->
         LET condition == evaluate(self.condition, env) IN
         IF condition.value = Panic THEN condition
         ELSE IF condition_is_noop(condition.value) THEN
           IF self.otherwise # <<>>
             THEN LET r == evaluate(self.otherwise[1], condition.env) IN
                  EResult(r.value, r.env, condition.log \o r.log)
           ELSE EResult(Noop, condition.env, condition.log)
         ELSE LET r == evaluate(self.if_true, condition.env) IN
              IF self.otherwise # <<>> /\ r.value # Panic
                THEN LET o == evaluate(self.otherwise[1], r.env) IN
                     EResult(r.value, o.env, condition.log \o r.log \o o.log)
              ELSE EResult(r.value, r.env, condition.log \o r.log)

evaluate(self, env) ==
  CASE self.tag = "Constant" -> EResult(self.value, env, <<>>)
    [] self.tag = "Variable" ->
         LET g == variable_get(env, self.name) IN
         EResult(g.value, g.env, <<GetEvent(self.name, g.value)>>)
    [] self.tag = "Compound" ->
         evaluate_compound(self.expressions, env, Noop, <<>>)
    [] self.tag = "Set" ->
         LET value == evaluate(self.value, env) IN
         IF value.value = Panic THEN value
         ELSE EResult(value.value,
                      variable_set(value.env, self.name, value.value),
                      Append(value.log, SetEvent(self.name, value.value)))
    [] self.tag = "FunctionCall" ->
         LET args == evaluate_args(self.args, env, <<>>, <<>>) IN
         IF args.panicked THEN EResult(Panic, args.env, args.log)
         ELSE LET value == call(self.implementation, args.values) IN
           EResult(value, args.env,
                   Append(args.log,
                          CallEvent(self.implementation, args.values, value)))
    [] self.tag = "If" ->
         LET condition == evaluate(self.condition, env) IN
         IF condition.value = Panic THEN condition
         ELSE IF condition_is_noop(condition.value) THEN
           IF self.otherwise # <<>>
             THEN LET r == evaluate(self.otherwise[1], condition.env) IN
                  EResult(r.value, r.env, condition.log \o r.log)
           ELSE EResult(Noop, condition.env, condition.log)
         ELSE LET r == evaluate(self.if_true, condition.env) IN
              EResult(r.value, r.env, condition.log \o r.log)

(***************************************************************************)
(* The lines a session feeds to eval: every sequence of at most MaxLen     *)
(* words of Words, separated by one space, and the lines of Corpus.        *)
(***************************************************************************)
MaxLen == 2

MaxLines == 2

Words ==
  {<<"a">>, <<"+">>, <<"1">>, <<"}">>, KwSet, KwIdentity}

RECURSIVE Join(_)
Join(words) ==
  IF words = <<>> THEN <<>>
  ELSE IF Len(words) = 1 THEN words[1]
  ELSE words[1] \o <<" ">> \o Join(Tail(words))

ShortLines == {Join(ws) : ws \in UNION {[1..n -> Words] : n \in 0..MaxLen}}

\* set f identity +
L_set_f ==
  <<"s", "e", "t", " ", "f", " ", "i", "d", "e", "n", "t", "i", "t", "y",
     " ", "+">>

\* f 1 2
L_f_1_2 ==
  <<"f", " ", "1", " ", "2">>

\* set + 1 +
L_rebind_same_line ==
  <<"s", "e", "t", " ", "+", " ", "1", " ", "+">>

\* if 0 then 1 else 2 if 0.0 then 1 else 2 if identity / then 1 else 2
\* if noop then 1 else 2 if noop then 1    (one line)
L_if_all ==
  <<"i", "f", " ", "0", " ", "t", "h", "e", "n", " ", "1", " ", "e", "l",
     "s", "e", " ", "2", " ", "i", "f", " ", "0", ".", "0", " ", "t", "h",
     "e", "n", " ", "1", " ", "e", "l", "s", "e", " ", "2", " ", "i", "f",
     " ", "i", "d", "e", "n", "t", "i", "t", "y", " ", "/", " ", "t", "h",
     "e", "n", " ", "1", " ", "e", "l", "s", "e", " ", "2", " ", "i", "f",
     " ", "n", "o", "o", "p", " ", "t", "h", "e", "n", " ", "1", " ", "e",
     "l", "s", "e", " ", "2", " ", "i", "f", " ", "n", "o", "o", "p", " ",
     "t", "h", "e", "n", " ", "1">>

\* if a then 1 else 2
L_if_a ==
  <<"i", "f", " ", "a", " ", "t", "h", "e", "n", " ", "1", " ", "e", "l",
     "s", "e", " ", "2">>

\* {1 2 3}
L_seq_123 ==
  <<"{", "1", " ", "2", " ", "3", "}">>

\* {}
L_seq_empty ==
  <<"{", "}">>

\* {1 2 3} {} {set a 5 a}
L_seq_all ==
  <<"{", "1", " ", "2", " ", "3", "}", " ", "{", "}", " ", "{", "s", "e",
     "t", " ", "a", " ", "5", " ", "a", "}">>

\* / 1 0
L_div_zero ==
  <<"/", " ", "1", " ", "0">>

\* / 7 2
L_div_7_2 ==
  <<"/", " ", "7", " ", "2">>

\* set a 1 + b
L_set_then_short_call ==
  <<"s", "e", "t", " ", "a", " ", "1", " ", "+", " ", "b">>

\* set a 1 1x
L_set_then_lex_error ==
  <<"s", "e", "t", " ", "a", " ", "1", " ", "1", "x">>

\* (one space)
L_blank ==
  <<" ">>

\* a + 1 1 a
L_three_exprs ==
  <<"a", " ", "+", " ", "1", " ", "1", " ", "a">>

\* set a 1 set a 2
L_set_twice ==
  <<"s", "e", "t", " ", "a", " ", "1", " ", "s", "e", "t", " ", "a", " ",
     "2">>

Corpus ==
  {L_set_f,
   L_f_1_2,
   L_rebind_same_line,
   L_if_all,
   L_if_a,
   L_seq_123,
   L_seq_empty,
   L_seq_all,
   L_div_zero,
   L_div_7_2,
   L_set_then_short_call,
   L_set_then_lex_error,
   L_blank,
   L_three_exprs,
   L_set_twice}

Lines == ShortLines \cup Corpus


(***************************************************************************)
(* The session: one Bloodbath value and the eval calls made on it.         *)
(*   environment  Bloodbath::environment                                   *)
(*   input        the argument of the current (or last) eval call          *)
(*   tokens       eval's local token vector                                *)
(*   result       eval's local result                                      *)
(*   pc           "idle": no call in progress; "loop": at the head of the  *)
(*                while loop of eval; "aborted": the process has panicked  *)
(*   outcome      what the last finished call returned                     *)
(* and, recorded for the properties:                                       *)
(*   before       the environment when the current call was entered        *)
(*   trace        one entry for each iteration of the loop in this call    *)
(*   calls        the number of eval calls made                            *)
(*   last_set     for each name, the value stored by the most recent       *)
(*                evaluation of a Set on it in the session                 *)
(***************************************************************************)
VARIABLES environment, input, tokens, result, pc, outcome, before, trace,
          calls, last_set

(***************************************************************************)
(* The reader and the builtins called on their own:                        *)
(*   text         the input of a Reader                                    *)
(*   lexed        what tokenise returned on it                             *)
(*   native       a builtin                                                *)
(*   arguments    the argument vector it is called with                    *)
(*   returned     what the call returned                                   *)
(***************************************************************************)
VARIABLES text, lexed, native, arguments, returned

session_vars == <<environment, input, tokens, result, pc, outcome, before,
                  trace, calls, last_set>>

reader_vars == <<text, lexed>>

builtin_vars == <<native, arguments, returned>>

vars == <<session_vars, reader_vars, builtin_vars>>

NoOutcome == [tag |-> "None", value |-> Noop, err |-> UnexpectedBrace]
Ok(value) == [tag |-> "Ok", value |-> value, err |-> UnexpectedBrace]
Err(e) == [tag |-> "Err", value |-> Noop, err |-> e]
Panicked == [tag |-> "Panic", value |-> Noop, err |-> UnexpectedBrace]

RECURSIVE RecordSets(_, _)
RecordSets(sets, log) ==
  IF log = <<>> THEN sets
  ELSE RecordSets(IF Head(log).ev = "set"
                    THEN [n \in DOMAIN sets \cup {Head(log).name} |->
                            IF n = Head(log).name THEN Head(log).value
                            ELSE sets[n]]
                    ELSE sets,
                  Tail(log))

Entry(p, e) ==
  [tokens |-> tokens, env |-> environment, parsed |-> p.ok, expr |-> p.expr,
   err |-> p.err, rest |-> p.tokens, env_parsed |-> p.env,
   value |-> e.value, log |-> e.log, env_after |-> e.env,
   sets |-> last_set]

NotEvaluated(env) == EResult(Noop, env, <<>>)

\* Not yet called, and the marker of a call that panicked.
NotCalled == [tag |-> "NotCalled"]

\* The build profiles that matter to a computation: with overflow checks
\* (TRUE) an overflow panics, without them (FALSE) the value wraps; where
\* nothing overflowed the two profiles agree.
Profiles(overflow) == IF overflow THEN BOOLEAN ELSE {FALSE}

\* Bloodbath::new()
SessionInit ==
  /\ environment = new
  /\ input = <<>>
  /\ tokens = <<>>
  /\ result = Noop
  /\ pc = "idle"
  /\ outcome = NoOutcome
  /\ before = new
  /\ trace = <<>>
  /\ calls = 0
  /\ last_set = EmptyEnvironment

ReaderIdle ==
  /\ text = <<>>
  /\ lexed = NotCalled

BuiltinIdle ==
  /\ native = "add"
  /\ arguments = <<Noop, Noop>>
  /\ returned = NotCalled

Init ==
  /\ SessionInit
  /\ ReaderIdle
  /\ BuiltinIdle

\* eval going on, after a reader error, with the tokens read before it.
eval_tokenise_partial ==
  /\ pc = "idle"
  /\ calls < MaxLines
  /\ \E line \in Lines :
       LET t == tokenise(line) IN
       /\ input' = line
       /\ tokens' = t.read
  /\ pc' = "loop"
  /\ outcome' = NoOutcome
  /\ result' = Noop
  /\ before' = environment
  /\ trace' = <<>>
  /\ calls' = calls + 1
  /\ UNCHANGED <<environment, last_set, reader_vars, builtin_vars>>

\* eval after tokenise yielded t: a panic where it overflowed under overflow
\* checks, the early return of a reader error, or the head of the loop.
eval_lexed(t) ==
  \E overflow_checks \in Profiles(t.overflow) :
    IF overflow_checks
      THEN /\ tokens' = <<>>
           /\ pc' = "aborted"
           /\ outcome' = Panicked
    ELSE IF t.ok
      THEN /\ tokens' = t.tokens
           /\ pc' = "loop"
           /\ outcome' = NoOutcome
    ELSE /\ tokens' = <<>>
         /\ pc' = "idle"
         /\ outcome' = Err(ReadingFailed(t.err))

\* eval, up to the head of the loop, on a line of lines and while fewer than
\* limit calls were made: Reader::new, tokenise (which panics on an overflow
\* under overflow checks), the early return of a reader error, let mut
\* result.
eval_call(lines, limit) ==
  /\ pc = "idle"
  /\ calls < limit
  /\ \E line \in lines :
       /\ input' = line
       /\ eval_lexed(tokenise(line))
  /\ result' = Noop
  /\ before' = environment
  /\ trace' = <<>>
  /\ calls' = calls + 1
  /\ UNCHANGED <<environment, last_set, reader_vars, builtin_vars>>

\* An eval call of the session.
eval_tokenise == eval_call(Lines, MaxLines)

\* eval_step leaving the loop after the first expression (an if in place of
\* the while).
eval_step_once ==
  /\ pc = "loop"
  /\ tokens # <<>>
  /\ LET p == parse_expression(environment, tokens) IN
     IF ~p.ok
       THEN /\ environment' = p.env
            /\ tokens' = <<>>
            /\ pc' = "idle"
            /\ outcome' = Err(p.err)
            /\ trace' = Append(trace, Entry(p, NotEvaluated(p.env)))
            /\ UNCHANGED <<result, last_set>>
     ELSE LET e == evaluate(p.expr, p.env) IN
       /\ environment' = e.env
       /\ trace' = Append(trace, Entry(p, e))
       /\ last_set' = RecordSets(last_set, e.log)
       /\ IF e.value = Panic
            THEN /\ pc' = "aborted"
                 /\ outcome' = Panicked
                 /\ UNCHANGED <<tokens, result>>
            ELSE /\ tokens' = <<>>
                 /\ result' = e.value
                 /\ UNCHANGED <<pc, outcome>>
  /\ UNCHANGED <<input, before, calls, reader_vars, builtin_vars>>

\* eval_step restoring, on a parser error, the environment the call was
\* entered with.
eval_step_rollback ==
  /\ pc = "loop"
  /\ tokens # <<>>
  /\ LET p == parse_expression(environment, tokens) IN
     IF ~p.ok
       THEN /\ environment' = before
            /\ tokens' = <<>>
            /\ pc' = "idle"
            /\ outcome' = Err(p.err)
            /\ trace' = Append(trace, Entry(p, NotEvaluated(p.env)))
            /\ UNCHANGED <<result, last_set>>
     ELSE LET e == evaluate(p.expr, p.env) IN
       /\ environment' = e.env
       /\ trace' = Append(trace, Entry(p, e))
       /\ last_set' = RecordSets(last_set, e.log)
       /\ IF e.value = Panic
            THEN /\ pc' = "aborted"
                 /\ outcome' = Panicked
                 /\ UNCHANGED <<tokens, result>>
            ELSE /\ tokens' = p.tokens
                 /\ result' = e.value
                 /\ UNCHANGED <<pc, outcome>>
  /\ UNCHANGED <<input, before, calls, reader_vars, builtin_vars>>

\* eval_step parsing every expression of the line against the environment
\* the call was entered with.
eval_step_stale ==
  /\ pc = "loop"
  /\ tokens # <<>>
  /\ LET p == parse_expression(before, tokens) IN
     IF ~p.ok
       THEN /\ environment' = environment
            /\ tokens' = <<>>
            /\ pc' = "idle"
            /\ outcome' = Err(p.err)
            /\ trace' = Append(trace, Entry(p, NotEvaluated(environment)))
            /\ UNCHANGED <<result, last_set>>
     ELSE LET e == evaluate(p.expr, environment) IN
       /\ environment' = e.env
       /\ trace' = Append(trace, Entry(p, e))
       /\ last_set' = RecordSets(last_set, e.log)
       /\ IF e.value = Panic
            THEN /\ pc' = "aborted"
                 /\ outcome' = Panicked
                 /\ UNCHANGED <<tokens, result>>
            ELSE /\ tokens' = p.tokens
                 /\ result' = e.value
                 /\ UNCHANGED <<pc, outcome>>
  /\ UNCHANGED <<input, before, calls, reader_vars, builtin_vars>>

\* One iteration of the loop: parse one expression, then evaluate it.
eval_step ==
  /\ pc = "loop"
  /\ tokens # <<>>
  /\ LET p == parse_expression(environment, tokens) IN
     IF ~p.ok
       THEN /\ environment' = p.env
            /\ tokens' = <<>>
            /\ pc' = "idle"
            /\ outcome' = Err(p.err)
            /\ trace' = Append(trace, Entry(p, NotEvaluated(p.env)))
            /\ UNCHANGED <<result, last_set>>
     ELSE LET e == evaluate(p.expr, p.env) IN
       /\ environment' = e.env
       /\ trace' = Append(trace, Entry(p, e))
       /\ last_set' = RecordSets(last_set, e.log)
       /\ IF e.value = Panic
            THEN /\ pc' = "aborted"
                 /\ outcome' = Panicked
                 /\ UNCHANGED <<tokens, result>>
            ELSE /\ tokens' = p.tokens
                 /\ result' = e.value
                 /\ UNCHANGED <<pc, outcome>>
  /\ UNCHANGED <<input, before, calls, reader_vars, builtin_vars>>

\* The loop is left: Ok(result).
eval_return ==
  /\ pc = "loop"
  /\ tokens = <<>>
  /\ pc' = "idle"
  /\ outcome' = Ok(result)
  /\ UNCHANGED <<environment, input, tokens, result, before, trace, calls,
                 last_set, reader_vars, builtin_vars>>

Next == eval_tokenise \/ eval_step \/ eval_return

Spec == Init /\ [][Next]_vars


(***************************************************************************)
(* One line on a fresh session: every sequence of at most MaxTokens words  *)
(* of LineWords, and the lines of LineCorpus.                              *)
(***************************************************************************)
MaxTokens == 4

LineWords ==
  {<<"{">>, <<"}">>, <<"1">>, <<"+">>, <<"a">>, KwSet, KwIdentity, KwIf,
   KwNoop}

TokenLines == {Join(ws) : ws \in UNION {[1..n -> LineWords] : n \in 0..MaxTokens}}

\* + set a 1 a
L_call_set_then_read ==
  <<"+", " ", "s", "e", "t", " ", "a", " ", "1", " ", "a">>

\* {set a 5 a} {set b + 5 a}
L_compound_reads ==
  <<"{", "s", "e", "t", " ", "a", " ", "5", " ", "a", "}", " ", "{", "s",
     "e", "t", " ", "b", " ", "+", " ", "5", " ", "a", "}">>

\* { if 1 then
L_open_if_then ==
  <<"{", " ", "i", "f", " ", "1", " ", "t", "h", "e", "n">>

\* { if 1 then 1 else
L_open_if_else ==
  <<"{", " ", "i", "f", " ", "1", " ", "t", "h", "e", "n", " ", "1", " ",
     "e", "l", "s", "e">>

\* { if 1 then 1
L_open_if_complete ==
  <<"{", " ", "i", "f", " ", "1", " ", "t", "h", "e", "n", " ", "1">>

\* identity 0.5
L_identity_float ==
  <<"i", "d", "e", "n", "t", "i", "t", "y", " ", "0", ".", "5">>

\* set f identity + identity f 1 1
L_identity_alias ==
  <<"s", "e", "t", " ", "f", " ", "i", "d", "e", "n", "t", "i", "t", "y",
     " ", "+", " ", "i", "d", "e", "n", "t", "i", "t", "y", " ", "f", " ",
     "1", " ", "1">>

\* + - 3 1 * 2 a
L_nested_calls ==
  <<"+", " ", "-", " ", "3", " ", "1", " ", "*", " ", "2", " ", "a">>

\* 999
L_long_literal ==
  <<"9", "9", "9">>

\* {set + identity - + 3 1} + 3 1
L_capture ==
  <<"{", "s", "e", "t", " ", "+", " ", "i", "d", "e", "n", "t", "i", "t",
     "y", " ", "-", " ", "+", " ", "3", " ", "1", "}", " ", "+", " ", "3",
     " ", "1">>

\* if 1 then set a 1 else set b 2 if noop then set c 1 else set d 2
\* if noop then set f 1
L_if_sets ==
  <<"i", "f", " ", "1", " ", "t", "h", "e", "n", " ", "s", "e", "t", " ",
     "a", " ", "1", " ", "e", "l", "s", "e", " ", "s", "e", "t", " ", "b",
     " ", "2", " ", "i", "f", " ", "n", "o", "o", "p", " ", "t", "h", "e",
     "n", " ", "s", "e", "t", " ", "c", " ", "1", " ", "e", "l", "s", "e",
     " ", "s", "e", "t", " ", "d", " ", "2", " ", "i", "f", " ", "n", "o",
     "o", "p", " ", "t", "h", "e", "n", " ", "s", "e", "t", " ", "f", " ",
     "1">>

LineCorpus ==
  {L_long_literal,
   L_if_sets,
   L_capture,
   L_call_set_then_read,
   L_compound_reads,
   L_open_if_then,
   L_open_if_else,
   L_open_if_complete,
   L_identity_float,
   L_identity_alias,
   L_nested_calls}

OneLine == TokenLines \cup LineCorpus

\* The one eval call of a session that is given a single line.
eval_line == eval_call(OneLine, 1)

LineNext == eval_line \/ eval_step \/ eval_return

LineSpec == Init /\ [][LineNext]_vars

\* eval is sequential code: a call that was entered keeps taking steps, so
\* the iteration of the loop and the return are taken when they can be.
\* The iteration is enabled exactly when the call is at the head of the
\* loop with a token left (it always extends trace), and its weak fairness
\* is written with that condition in the place of ENABLED.
LineFairSpec ==
  /\ LineSpec
  /\ WF_vars(eval_return)
  /\ \/ []<>(~(pc = "loop" /\ tokens # <<>>))
     \/ []<><<eval_step>>_vars


(***************************************************************************)
(* The reader on its own: tokenise on every text of at most MaxText        *)
(* characters of Alphabet, on the decimal rendering of every integer of    *)
(* the width, and on the texts of ReaderCorpus.                            *)
(***************************************************************************)
MaxText == 4

Alphabet == {"1", "9", "-", ".", " ", "\n", "a", "}"}

ShortTexts == UNION {[1..n -> Alphabet] : n \in 0..MaxText}

Digits == <<"0", "1", "2", "3", "4", "5", "6", "7", "8", "9">>

\* The decimal rendering of a non-negative integer.
RECURSIVE to_digits(_)
to_digits(n) ==
  IF n < 10 THEN <<Digits[n + 1]>>
  ELSE Append(to_digits(n \div 10), Digits[(n % 10) + 1])

\* i64::to_string
to_string(n) == IF n < 0 THEN <<"-">> \o to_digits(-n) ELSE to_digits(n)

I64 == MinInt(I64Bits)..MaxInt(I64Bits)

Rendered == {to_string(n) : n \in I64}

\* + + 0.5 -1.0 -1
T_test_reader ==
  <<"+", " ", "+", " ", "0", ".", "5", " ", "-", "1", ".", "0", " ", "-",
     "1">>

\* set a noop set b a
T_test_reader_names ==
  <<"s", "e", "t", " ", "a", " ", "n", "o", "o", "p", " ", "s", "e", "t",
     " ", "b", " ", "a">>

\* 1, a tab, 2, a carriage return and a newline
T_all_separators ==
  <<"1", "\t", "2", "\r", "\n">>

ReaderCorpus == {T_test_reader, T_test_reader_names, T_all_separators}

Texts == ShortTexts \cup Rendered \cup ReaderCorpus

\* What a call did: it returned a value, or it panicked.
Returned(value) == [tag |-> "Returned", value |-> value]

PanickedCall == [tag |-> "Panicked", value |-> Noop]

\* What a call of tokenise that computes t can do, over the build profiles.
Outcomes(t) ==
  {IF overflow_checks THEN PanickedCall ELSE Returned(t) :
     overflow_checks \in Profiles(t.overflow)}

ReaderInit ==
  /\ text \in Texts
  /\ lexed = NotCalled
  /\ SessionInit
  /\ BuiltinIdle

\* Reader::new(text).tokenise()
tokenise_call ==
  /\ lexed = NotCalled
  /\ lexed' \in Outcomes(tokenise(text))
  /\ UNCHANGED <<text, session_vars, builtin_vars>>

ReaderNext == tokenise_call

ReaderSpec == ReaderInit /\ [][ReaderNext]_vars


(***************************************************************************)
(* The builtins on their own: each of them on every pair of Operands.      *)
(***************************************************************************)
MaxOperand == 7

Natives == {"add", "sub", "mul", "div"}

Integers == {Integer(n) : n \in -MaxOperand..MaxOperand}

\* The halves: n / 2.0
Floats == {FloatOf(Frac(n, 2)) : n \in -MaxOperand..MaxOperand}

Functions == {Function(2, i) : i \in Natives}

Operands == {Noop} \cup Integers \cup Floats \cup Functions

BuiltinInit ==
  /\ native \in Natives
  /\ arguments \in Operands \X Operands
  /\ returned = NotCalled
  /\ SessionInit
  /\ ReaderIdle

\* FunctionImplementation::call(arguments)
builtin_call ==
  /\ returned = NotCalled
  /\ returned' = LET value == call(native, arguments) IN
                 IF value = Panic THEN PanickedCall ELSE Returned(value)
  /\ UNCHANGED <<native, arguments, session_vars, reader_vars>>

BuiltinNext == builtin_call

BuiltinSpec == BuiltinInit /\ [][BuiltinNext]_vars


(***************************************************************************)
(* Properties.                                                             *)
(***************************************************************************)
Suffixes(seq) == {SubSeq(seq, i, Len(seq)) : i \in 1..Len(seq)}

IsKeyword(name) == name \in {KwNoop, KwIdentity, KwSet, KwIf}

StartsWithName(toks) ==
  toks # <<>> /\ Head(toks).tag = "Identifier" /\ ~IsKeyword(Head(toks).name)

Binding(env, name) == IF name \in DOMAIN env THEN env[name] ELSE Noop

\* The next n complete expressions of toks, parsed one after the other.
RECURSIVE TakeExpressions(_, _, _)
TakeExpressions(env, toks, n) ==
  IF n = 0 THEN [ok |-> TRUE, exprs |-> <<>>, tokens |-> toks]
  ELSE IF toks = <<>> THEN [ok |-> FALSE, exprs |-> <<>>, tokens |-> toks]
  ELSE LET r == parse_expression(env, toks) IN
    IF ~r.ok THEN [ok |-> FALSE, exprs |-> <<>>, tokens |-> r.tokens]
    ELSE LET more == TakeExpressions(r.env, r.tokens, n - 1) IN
      [ok |-> more.ok, exprs |-> <<r.expr>> \o more.exprs,
       tokens |-> more.tokens]

ArityDirected(env, toks) ==
  LET name == Head(toks).name
      b == Binding(env, name)
      r == parse_expression(env, toks)
  IN
  IF b.tag = "Function"
    THEN LET a == TakeExpressions(env, Tail(toks), b.argument_count) IN
      IF a.ok
        THEN /\ r.ok
             /\ r.expr = FunctionCall(b.implementation, a.exprs)
             /\ Len(r.expr.args) = b.argument_count
             /\ r.tokens = a.tokens
      ELSE ~r.ok
  ELSE /\ r.ok
       /\ r.expr = Variable(name)
       /\ r.tokens = Tail(toks)

\* C1: wherever in the rest of the line an identifier other than
\* noop/identity/set/if stands, parse_expression started there yields a call
\* whose arguments are exactly the next argument_count complete expressions
\* when the name is bound to a Function (and fails when they are not there),
\* and yields a variable reference and takes no further token when the name
\* is bound to anything else or is unbound.
C1_ArityDirectedParsing ==
  pc = "loop" =>
    \A s \in Suffixes(tokens) :
      StartsWithName(s) => ArityDirected(environment, s)

C1_Witness ==
  /\ pc = "loop"
  /\ \E s \in Suffixes(tokens) :
       /\ StartsWithName(s)
       /\ Binding(environment, Head(s).name).tag = "Function"
       /\ parse_expression(environment, s).ok
       /\ parse_expression(environment, s).tokens # <<>>
  /\ \E s \in Suffixes(tokens) :
       /\ StartsWithName(s)
       /\ Binding(environment, Head(s).name).tag = "Integer"
       /\ Len(s) > 1

\* How a name that a Set has stored the value b under must be parsed.
ParsedAs(b, name, toks, ok, expr, rest, env) ==
  IF b.tag = "Function"
    THEN IF ok
           THEN /\ expr.tag = "FunctionCall"
                /\ expr.implementation = b.implementation
                /\ Len(expr.args) = b.argument_count
         ELSE ~TakeExpressions(env, Tail(toks), b.argument_count).ok
  ELSE /\ ok
       /\ expr = Variable(name)
       /\ rest = Tail(toks)

\* C2: once a Set on a name has been evaluated, every later top-level
\* expression of the session (same line or later line) that starts with the
\* name was parsed by the new binding, and so is the name wherever it stands
\* in the rest of the line: no following expression when the value is not a
\* Function, argument_count of them when it is; f 1 2 after set f identity +
\* yields Integer(3), and + alone is a whole line once + holds a number.
C2_RebindingChangesParsing ==
  /\ \A i \in DOMAIN trace :
       LET e == trace[i] IN
       (StartsWithName(e.tokens) /\ Head(e.tokens).name \in DOMAIN e.sets)
         => ParsedAs(e.sets[Head(e.tokens).name], Head(e.tokens).name,
                     e.tokens, e.parsed, e.expr, e.rest, e.env)
  /\ pc = "loop" =>
       \A s \in Suffixes(tokens) :
         (StartsWithName(s) /\ Head(s).name \in DOMAIN last_set)
           => LET r == parse_expression(environment, s) IN
              ParsedAs(last_set[Head(s).name], Head(s).name, s, r.ok, r.expr,
                       r.tokens, environment)
  /\ (/\ input = L_f_1_2
      /\ outcome.tag = "Ok"
      /\ <<"f">> \in DOMAIN last_set
      /\ last_set[<<"f">>] = Function(2, "add"))
       => outcome.value = Integer(3)
  /\ (/\ input = <<"+">>
      /\ pc = "idle"
      /\ <<"+">> \in DOMAIN last_set
      /\ last_set[<<"+">>].tag # "Function")
       => outcome = Ok(last_set[<<"+">>])

C2_Witness ==
  /\ calls = 2
  /\ input = L_f_1_2
  /\ outcome = Ok(Integer(3))
  /\ <<"f">> \in DOMAIN before
  /\ before[<<"f">>] = Function(2, "add")
  /\ <<"f">> \in DOMAIN last_set

ProbeNames == {<<"a">>, <<"b">>, <<"f">>, <<"+">>, <<"z">>}

\* C3: variable_get on any name returns a value; on an unbound name it
\* returns Noop and leaves the name bound to Noop (and every other binding
\* as it was), so a second read returns Noop again; on a bound name it
\* returns the binding and changes nothing.  After an iteration of the loop
\* the name the expression started with and every name read while it was
\* evaluated are bound.
C3_AutoVivification ==
  /\ \A n \in ProbeNames :
       LET g == variable_get(environment, n) IN
       /\ n \in DOMAIN g.env
       /\ g.env[n] = g.value
       /\ DOMAIN g.env = DOMAIN environment \cup {n}
       /\ \A m \in DOMAIN environment : g.env[m] = environment[m]
       /\ n \notin DOMAIN environment =>
            /\ g.value = Noop
            /\ variable_get(g.env, n).value = Noop
  /\ \A i \in DOMAIN trace :
       LET e == trace[i] IN
       /\ StartsWithName(e.tokens)
            => Head(e.tokens).name \in DOMAIN e.env_parsed
       /\ \A k \in DOMAIN e.log :
            e.log[k].ev = "get" => e.log[k].name \in DOMAIN e.env_after
       /\ DOMAIN e.env_after \subseteq DOMAIN environment

C3_Witness ==
  /\ <<"a">> \notin DOMAIN before
  /\ <<"a">> \notin DOMAIN last_set
  /\ <<"a">> \in DOMAIN environment
  /\ environment[<<"a">>] = Noop
  /\ \E i \in DOMAIN trace : \E k \in DOMAIN trace[i].log :
       trace[i].log[k] = GetEvent(<<"a">>, Noop)

\* C4: every name a Set has been evaluated on is bound to the value of the
\* most recent such Set, in every later state of the session, and reading
\* it returns that value; a top-level Set yields the value of its
\* sub-expression and leaves the name bound to it, whatever the name was
\* bound to before.
C4_SetAndPersistence ==
  /\ \A n \in DOMAIN last_set :
       /\ n \in DOMAIN environment
       /\ environment[n] = last_set[n]
       /\ variable_get(environment, n).value = last_set[n]
  /\ \A i \in DOMAIN trace :
       LET e == trace[i] IN
       (e.parsed /\ e.expr.tag = "Set" /\ e.value # Panic) =>
         /\ e.value = evaluate(e.expr.value, e.env_parsed).value
         /\ e.env_after[e.expr.name] = e.value

C4_Witness ==
  /\ calls = 2
  /\ pc = "idle"
  /\ before[<<"+">>] = Integer(1)
  /\ environment[<<"+">>] = Integer(1)
  /\ <<"+">> \in DOMAIN last_set
  /\ trace # <<>>
  /\ \A i \in DOMAIN trace : \A k \in DOMAIN trace[i].log :
       trace[i].log[k].ev # "set"

Last(seq) == seq[Len(seq)]

\* C5: a top-level If yields what its then-branch yields when the value of
\* the condition is anything but Noop, what its else-branch yields when the
\* value is Noop, and Noop when the value is Noop and there is no
\* else-branch; Integer(0), Float(0.0) and a Function are conditions that
\* take the then-branch.
C5_Truthiness ==
  /\ \A i \in DOMAIN trace :
       LET e == trace[i] IN
       (e.parsed /\ e.expr.tag = "If") =>
         LET c == evaluate(e.expr.condition, e.env_parsed) IN
         c.value # Panic =>
           IF c.value # Noop
             THEN LET t == evaluate(e.expr.if_true, c.env) IN
                  e.value = t.value /\ e.env_after = t.env
           ELSE IF e.expr.otherwise = <<>>
             THEN e.value = Noop /\ e.env_after = c.env
           ELSE LET o == evaluate(e.expr.otherwise[1], c.env) IN
                e.value = o.value /\ e.env_after = o.env
  /\ (input = L_if_all /\ outcome.tag = "Ok") =>
       /\ Len(trace) = 5
       /\ trace[1].expr.condition = Constant(Integer(0))
       /\ trace[1].value = Integer(1)
       /\ trace[2].expr.condition = Constant(Float(0, 1))
       /\ trace[2].value = Integer(1)
       /\ Binding(before, <<"/">>).tag = "Function"
            => trace[3].value = Integer(1)
       /\ trace[4].value = Integer(2)
       /\ trace[5].value = Noop
       /\ outcome.value = Noop

C5_Witness ==
  /\ input = L_if_all
  /\ outcome = Ok(Noop)
  /\ Len(trace) = 5
  /\ trace[3].log = <<GetEvent(<<"/">>, Function(2, "div"))>>
  /\ trace[3].value = Integer(1)
  /\ trace[5].expr.otherwise = <<>>

\* The values of the expressions of exprs, evaluated one after the other
\* from env, and the log of it.
RECURSIVE InOrder(_, _)
InOrder(exprs, env) ==
  IF exprs = <<>> THEN [values |-> <<>>, env |-> env, log |-> <<>>]
  ELSE LET r == evaluate(Head(exprs), env)
           more == InOrder(Tail(exprs), r.env)
       IN [values |-> <<r.value>> \o more.values, env |-> more.env,
           log |-> r.log \o more.log]

C7_LineEvaluation ==
  (calls > 0 /\ tokenise(input).ok) =>
    LET first == tokenise(input).tokens
        n == Len(trace)
    IN
    /\ \A i \in DOMAIN trace :
         LET e == trace[i]
             p == parse_expression(e.env, e.tokens)
         IN
         /\ e.tokens # <<>>
         /\ e.tokens = IF i = 1 THEN first ELSE trace[i - 1].rest
         /\ e.env = IF i = 1 THEN before ELSE trace[i - 1].env_after
         /\ e.parsed = p.ok
         /\ e.parsed =>
              /\ e.expr = p.expr
              /\ e.rest = p.tokens
              /\ e.value = evaluate(p.expr, p.env).value
              /\ e.env_after = evaluate(p.expr, p.env).env
         /\ (i < n) => (e.parsed /\ e.value # Panic)
    /\ pc = "loop" =>
         /\ tokens = IF n = 0 THEN first ELSE trace[n].rest
         /\ environment = IF n = 0 THEN before ELSE trace[n].env_after
         /\ result = IF n = 0 THEN Noop ELSE trace[n].value
    /\ outcome.tag = "Ok" =>
         /\ (IF n = 0 THEN first ELSE trace[n].rest) = <<>>
         /\ outcome.value = IF n = 0 THEN Noop ELSE trace[n].value
         /\ environment = IF n = 0 THEN before ELSE trace[n].env_after

C7_Witness ==
  /\ input = L_rebind_same_line
  /\ before[<<"+">>] = Function(2, "add")
  /\ Len(trace) = 2
  /\ trace[1].value = Integer(1)
  /\ trace[2].expr = Variable(<<"+">>)
  /\ outcome = Ok(Integer(1))

\* C8: no call of eval ends in a panic: every call returns Ok or Err.
C8_NoFatalAbort == pc # "aborted"

\* The names a Set was evaluated on in the current call, with the value of
\* the last one.
RECURSIVE LineLog(_)
LineLog(tr) == IF tr = <<>> THEN <<>> ELSE Head(tr).log \o LineLog(Tail(tr))

Written == RecordSets(EmptyEnvironment, LineLog(trace))

ParserErrorReturned == outcome.tag = "Err" /\ outcome.err.tag # "ReadingFailed"

\* C9 as stated: after a parser error every binding is the one the call was
\* entered with, but for the names a Set of the line was evaluated on.
C9_OnlySetsChangeOnError ==
  ParserErrorReturned =>
    /\ DOMAIN environment = DOMAIN before \cup DOMAIN Written
    /\ \A n \in DOMAIN environment :
         environment[n] = IF n \in DOMAIN Written THEN Written[n]
                          ELSE before[n]

\* C9, amended: after a parser error every name a Set of the line was
\* evaluated on holds the value of the last such Set (nothing is rolled
\* back), every other name bound when the call was entered is still bound
\* to the same value, and every further name is one that was unbound and is
\* now bound to Noop.
C9_ErrorKeepsSession ==
  ParserErrorReturned =>
    /\ DOMAIN before \cup DOMAIN Written \subseteq DOMAIN environment
    /\ \A n \in DOMAIN environment :
         environment[n] = IF n \in DOMAIN Written THEN Written[n]
                          ELSE IF n \in DOMAIN before THEN before[n]
                          ELSE Noop

C9_Witness ==
  /\ input = L_set_then_short_call
  /\ outcome.tag = "Err"
  /\ outcome.err.tag = "ExpectedAnExpression"
  /\ <<"a">> \notin DOMAIN before
  /\ <<"b">> \notin DOMAIN before
  /\ environment[<<"a">>] = Integer(1)
  /\ environment[<<"b">>] = Noop

\* C10: a call whose line does not lex returns the reader's error wrapped
\* in ReadingFailed, without an iteration of the loop and with the
\* environment it was entered with; no other call returns ReadingFailed.
C10_LexingPrecedesEvaluation ==
  calls > 0 =>
    LET t == tokenise(input) IN
    /\ ~t.ok =>
         /\ pc = "idle"
         /\ outcome = Err(ReadingFailed(t.err))
         /\ trace = <<>>
         /\ environment = before
    /\ (outcome.tag = "Err" /\ outcome.err.tag = "ReadingFailed") => ~t.ok

C10_Witness ==
  /\ input = L_set_then_lex_error
  /\ outcome = Err(ReadingFailed(ExpectedADigit("x")))
  /\ tokenise(input).read # <<>>
  /\ <<"a">> \notin DOMAIN environment
  /\ trace = <<>>


\* C11: Noop is absorbing in arithmetic.  Each of add, sub, mul and div,
\* called with Noop or with a Function as its first or as its second
\* argument, whatever the other argument is, returns Noop: the call returns
\* (it raises no error and does not panic) and its value is Noop.
C11_NoopAbsorbing ==
  (/\ returned # NotCalled
   /\ \E i \in 1..2 : arguments[i].tag \in {"Noop", "Function"})
    => returned = Returned(Noop)

C11_Witness ==
  /\ native = "div"
  /\ arguments[1].tag = "Function"
  /\ arguments[2] = Integer(0)
  /\ returned = Returned(Noop)

\* b divides a: a is a multiple of b.
Divides(b, a) == \E k \in -Abs(a)..Abs(a) : a = k * b

\* C12: division coercion on integers.  For Integer a and Integer b, div
\* returns Integer(a / b) when b divides a and the Float a / b otherwise;
\* add, sub and mul of two Integers return an Integer.
C12_DivisionCoercion ==
  (/\ returned # NotCalled
   /\ is_integer(arguments[1])
   /\ is_integer(arguments[2]))
    => LET a == arguments[1].value
           b == arguments[2].value
       IN
       /\ returned.tag = "Returned"
       /\ IF native # "div" THEN is_integer(returned.value)
          ELSE IF Divides(b, a)
            THEN /\ is_integer(returned.value)
                 /\ returned.value.value * b = a
          ELSE returned.value = FloatOf(Frac(a, b))

(***************************************************************************)
(* identity                                                                *)
(***************************************************************************)
\* What parse_identity and the evaluation after it made of the expression
\* identity x at the head of the tokens of a loop iteration.
IdentityEvaluated(en) ==
  LET x == en.tokens[2] IN
  /\ en.rest = SubSeq(en.tokens, 3, Len(en.tokens))
  /\ CASE x.tag = "Identifier" ->
            /\ en.parsed
            /\ en.env_parsed = en.env
            /\ \A i \in 1..Len(en.log) : en.log[i].ev # "call"
            /\ IF x.name = KwNoop THEN en.value = Noop /\ en.log = <<>>
               ELSE en.value = Binding(en.env, x.name)
       [] x.tag = "IntegerConstant" ->
            en.parsed /\ en.value = Integer(x.value)
       [] x.tag = "FloatConstant" ->
            en.parsed /\ en.value = Float(x.num, x.den)
       [] x.tag \in {"LeftBrace", "RightBrace"} ->
            ~en.parsed /\ en.err = UnexpectedBrace

\* What parse_expression made (p) of identity x at the head of toks,
\* wherever in the line it stands.
IdentityParsed(env, toks, p) ==
  LET x == toks[2] IN
  /\ p.tokens = SubSeq(toks, 3, Len(toks))
  /\ p.env = env
  /\ CASE x.tag = "Identifier" ->
            /\ p.ok
            /\ p.expr = IF x.name = KwNoop THEN Constant(Noop)
                        ELSE Variable(x.name)
       [] x.tag = "IntegerConstant" ->
            p.ok /\ p.expr = Constant(Integer(x.value))
       [] x.tag = "FloatConstant" ->
            p.ok /\ p.expr = Constant(Float(x.num, x.den))
       [] x.tag \in {"LeftBrace", "RightBrace"} ->
            ~p.ok /\ p.err = UnexpectedBrace

\* C13: identity references without invoking.  identity x takes exactly one
\* token after identity; for an identifier other than noop it yields the
\* current binding of the name, also when that is a Function (no argument is
\* taken and nothing is called); for a numeric literal it yields the
\* constant, for noop it yields Noop, and for a brace it fails with
\* UnexpectedBrace.  Stated of every loop iteration that starts with
\* identity x and of every identity x in the tokens still to be parsed.
C13_IdentityReferences ==
  /\ \A i \in 1..Len(trace) :
       (/\ Len(trace[i].tokens) >= 2
        /\ trace[i].tokens[1] = Identifier(KwIdentity))
         => IdentityEvaluated(trace[i])
  /\ \A toks \in Suffixes(tokens) :
       (Len(toks) >= 2 /\ toks[1] = Identifier(KwIdentity))
         => IdentityParsed(environment, toks,
                           parse_expression(environment, toks))

\* identity f with f bound to a Function and two literals after it: the
\* Function is the value and the literals are left in the tokens.
C13_Witness ==
  \E i \in 1..Len(trace) :
    /\ Len(trace[i].tokens) >= 4
    /\ trace[i].tokens[1] = Identifier(KwIdentity)
    /\ trace[i].tokens[2] = Identifier(<<"f">>)
    /\ Binding(trace[i].env, <<"f">>).tag = "Function"
    /\ trace[i].value = Binding(trace[i].env, <<"f">>)
    /\ Len(trace[i].rest) = 2

(***************************************************************************)
(* The reader on its own                                                   *)
(***************************************************************************)
\* C14: integer literal round trip.  For every integer n of the width of
\* i64, negative values and the two extremes included, tokenising the
\* decimal rendering of n yields exactly one token, IntegerConstant(n).
C14_IntegerRoundTrip ==
  \A n \in I64 :
    (lexed # NotCalled /\ text = to_string(n))
      => /\ lexed.tag = "Returned"
         /\ lexed.value.ok
         /\ lexed.value.tokens = <<IntegerConstant(n)>>

\* C15: lexing is total.  On every input made of digits, letters, legal
\* punctuation, whitespace and braces, tokenise returns: either a token
\* sequence or one of the errors EoF, ExpectedADigit, UnexpectedCharacter.
\* It never panics, whatever the number of digits of a numeric literal.
C15_LexingTotal ==
  lexed # NotCalled
    => /\ lexed.tag = "Returned"
       /\ \/ lexed.value.ok
          \/ lexed.value.err.tag \in
               {"EoF", "ExpectedADigit", "UnexpectedCharacter"}

\* The positions of text (from 1) at which a token starts: a character that
\* is no separator and is a brace, or stands first, or follows a separator
\* or a brace.
TokenStarts(t) ==
  {p \in 1..Len(t) :
     /\ ~is_separator(t[p])
     /\ \/ is_brace(t[p])
        \/ p = 1
        \/ is_delimiter(t[p - 1])}

\* The k-th of them, 0 when there are fewer.
TokenStart(t, k) ==
  IF \E p \in TokenStarts(t) :
       Cardinality({q \in TokenStarts(t) : q <= p}) = k
    THEN CHOOSE p \in TokenStarts(t) :
           Cardinality({q \in TokenStarts(t) : q <= p}) = k
  ELSE 0

IsDigit(c) == c \in {Digits[i] : i \in 1..10}

\* The first character is a decimal digit, or is - immediately followed by
\* a decimal digit.
NumberStart(t, p) ==
  \/ IsDigit(t[p])
  \/ t[p] = "-" /\ p < Len(t) /\ IsDigit(t[p + 1])

\* The characters of the token that starts at p, up to the next separator
\* or brace.
TokenText(t, p) ==
  LET ends == {q \in p..Len(t) : q = Len(t) \/ is_delimiter(t[q + 1])}
  IN SubSeq(t, p, CHOOSE q \in ends : \A r \in ends : q <= r)

\* The k-th token read from t, which starts at p, is a number exactly when
\* NumberStart says so, and the identifier of the token's characters
\* otherwise.
LexedByFirstCharacter(t, p, token) ==
  IF is_brace(t[p]) THEN token.tag \in {"LeftBrace", "RightBrace"}
  ELSE IF NumberStart(t, p)
    THEN token.tag \in {"IntegerConstant", "FloatConstant"}
  ELSE token = Identifier(TokenText(t, p))

\* C16: number versus identifier.  A token is lexed as a number exactly
\* when its first character is a decimal digit or is - immediately followed
\* by a decimal digit, and as an identifier in every other case: a - followed
\* by whitespace and a - that ends the input both yield Identifier("-").
\* Stated of every call that returned: each token read is of the kind its
\* first character decides, and a reader error arises only inside a number
\* (or where no token is left to read).
C16_NumberOrIdentifier ==
  (lexed # NotCalled /\ lexed.tag = "Returned")
    => LET read == lexed.value.read IN
       /\ \A k \in 1..Len(read) :
            /\ TokenStart(text, k) # 0
            /\ LexedByFirstCharacter(text, TokenStart(text, k), read[k])
       /\ lexed.value.ok => TokenStart(text, Len(read) + 1) = 0
       /\ (~lexed.value.ok /\ TokenStart(text, Len(read) + 1) # 0)
            => NumberStart(text, TokenStart(text, Len(read) + 1))

\* The separator at p of t is needed: it stands between two characters that
\* are no separators.
Separates(t, p) ==
  /\ p > 1
  /\ ~is_separator(t[p - 1])
  /\ \E q \in (p + 1)..Len(t) : ~is_separator(t[q])

\* t from p on without the separators before the first token, after the
\* last one, and after another separator.
RECURSIVE SqueezeFrom(_, _)
SqueezeFrom(t, p) ==
  IF p > Len(t) THEN <<>>
  ELSE IF is_separator(t[p]) /\ ~Separates(t, p) THEN SqueezeFrom(t, p + 1)
  ELSE <<t[p]>> \o SqueezeFrom(t, p + 1)

Squeeze(t) == SqueezeFrom(t, 1)

\* C17: whitespace only separates.  Whitespace added before the first
\* token, between tokens or after the last token does not change the result
\* of tokenise, and an input made only of whitespace tokenises like the
\* empty input, to the empty token sequence with no error.  Stated of every
\* call that returned, against the input without the added whitespace,
\* where that one tokenises.
C17_WhitespaceOnlySeparates ==
  (/\ lexed # NotCalled
   /\ lexed.tag = "Returned"
   /\ tokenise(Squeeze(text)).ok)
    => /\ lexed.value.ok
       /\ lexed.value.tokens = tokenise(Squeeze(text)).tokens

(***************************************************************************)
(* Braces                                                                  *)
(***************************************************************************)
\* The number of braces left open after each prefix of toks.
RECURSIVE Depth(_)
Depth(toks) ==
  IF toks = <<>> THEN 0
  ELSE Depth(SubSeq(toks, 1, Len(toks) - 1))
       + (IF toks[Len(toks)] = LeftBrace THEN 1
          ELSE IF toks[Len(toks)] = RightBrace THEN -1 ELSE 0)

\* The brace that opens toks has no matching brace before the end.
Unmatched(toks) ==
  /\ toks # <<>>
  /\ Head(toks) = LeftBrace
  /\ \A k \in 1..Len(toks) : Depth(SubSeq(toks, 1, k)) > 0

Braces(toks) == {k \in 1..Len(toks) : toks[k] \in {LeftBrace, RightBrace}}

\* toks is a run of complete expressions, none included.
CompleteExpressions(env, toks) ==
  \E n \in 0..Len(toks) :
    /\ TakeExpressions(env, toks, n).ok
    /\ TakeExpressions(env, toks, n).tokens = <<>>

C19_ArgumentOrder ==
  /\ \A i \in DOMAIN trace :
       LET e == trace[i] IN
       (e.parsed /\ e.expr.tag = "FunctionCall") =>
         LET s == InOrder(e.expr.args, e.env_parsed) IN
         (\A k \in DOMAIN s.values : s.values[k] # Panic) =>
           /\ e.log = Append(s.log, CallEvent(e.expr.implementation,
                                              s.values, e.value))
           /\ e.env_after = s.env
           /\ e.value = call(e.expr.implementation, s.values)
  /\ (/\ input = L_call_set_then_read
      /\ <<"a">> \notin DOMAIN before
      /\ pc = "idle")
       => outcome = Ok(Integer(2))

C19_Witness ==
  /\ input = L_call_set_then_read
  /\ <<"a">> \notin DOMAIN before
  /\ Len(trace) = 1
  /\ trace[1].log = <<SetEvent(<<"a">>, Integer(1)),
                      GetEvent(<<"a">>, Integer(1)),
                      CallEvent("add", <<Integer(1), Integer(1)>>,
                                Integer(2))>>
  /\ outcome = Ok(Integer(2))

ProperSuffix(rest, toks) ==
  /\ Len(rest) < Len(toks)
  /\ rest = SubSeq(toks, Len(toks) - Len(rest) + 1, Len(toks))

\* The number of tokens of the line of the current call.
LineTokens == Len(tokenise(input).tokens)

\* Every call of parse_expression on tokens still to be parsed, at the top
\* level or inside another expression, removes at least one token and adds
\* none; the iterations made and the tokens left never exceed the tokens of
\* the line.
TokensConsumed ==
  /\ \A toks \in Suffixes(tokens) :
       ProperSuffix(parse_expression(environment, toks).tokens, toks)
  /\ \A i \in DOMAIN trace : ProperSuffix(trace[i].rest, trace[i].tokens)
  /\ Len(trace) + Len(tokens) <= LineTokens

\* C21: termination.  eval terminates on every line: each call of
\* parse_expression removes at least one token and none is added, every
\* iteration of the loop leaves fewer tokens than it found, the loop runs
\* at most as many times as the line has tokens, and a call that reached
\* the loop leaves it (by returning, or by the abort of a panic).
C21_Termination ==
  /\ []TokensConsumed
  /\ [][eval_step => Len(tokens') < Len(tokens)]_vars
  /\ (pc = "loop") ~> (pc # "loop")

\* A line of four tokens took four iterations and returned.
C21_Witness ==
  /\ LineTokens = 4
  /\ Len(trace) = 4
  /\ tokens = <<>>
  /\ pc = "idle"
  /\ outcome.tag = "Ok"

(***************************************************************************)
(* Parse-time capture                                                      *)
(***************************************************************************)
\* The children of a compound that was parsed from toks (after its brace)
\* are the expressions parse_expression makes of the tokens one after the
\* other against env, the environment from before the whole expression.
ChildrenParsedAgainst(env, toks, children) ==
  LET t == TakeExpressions(env, toks, Len(children)) IN
  /\ t.ok
  /\ t.exprs = children
  /\ t.tokens # <<>>
  /\ Head(t.tokens) = RightBrace

SetNames(log) == {log[k].name : k \in {j \in DOMAIN log : log[j].ev = "set"}}

\* The names a log reads.
ReadNames(log) == {log[k].name : k \in {j \in DOMAIN log : log[j].ev = "get"}}

\* C23: only the taken branch runs.  Evaluating an if evaluates the
\* condition once and then the then-branch when the condition is not Noop,
\* the else-branch when it is Noop and there is one, and nothing otherwise:
\* the events of the if are those of the condition followed by those of the
\* branch taken, and a set in the branch not taken is not executed and
\* leaves its target as it was (unbound where it was unbound).
C23_OnlyTakenBranch ==
  /\ \A i \in DOMAIN trace :
       LET e == trace[i] IN
       (e.parsed /\ e.expr.tag = "If") =>
         LET c == evaluate(e.expr.condition, e.env_parsed) IN
         c.value # Panic =>
           /\ e.log = c.log \o
                (IF c.value # Noop
                   THEN evaluate(e.expr.if_true, c.env).log
                 ELSE IF e.expr.otherwise # <<>>
                   THEN evaluate(e.expr.otherwise[1], c.env).log
                 ELSE <<>>)
           /\ \A name \in (DOMAIN e.env_after \cup DOMAIN e.env_parsed)
                            \ SetNames(e.log) :
                \/ /\ name \in DOMAIN e.env_parsed
                   /\ name \in DOMAIN e.env_after
                   /\ e.env_after[name] = e.env_parsed[name]
                \/ /\ name \notin DOMAIN e.env_parsed
                   /\ name \in ReadNames(e.log)
                   /\ e.env_after[name] = Noop
  /\ (input = L_if_sets /\ before = new /\ pc = "idle" /\ outcome.tag = "Ok")
       => /\ environment[<<"a">>] = Integer(1)
          /\ environment[<<"d">>] = Integer(2)
          /\ DOMAIN environment = DOMAIN new \cup {<<"a">>, <<"d">>}
          /\ trace[3].value = Noop
          /\ trace[3].log = <<>>

C23_Witness ==
  /\ input = L_if_sets
  /\ before = new
  /\ Len(trace) = 3
  /\ trace[1].log = <<SetEvent(<<"a">>, Integer(1))>>
  /\ trace[2].log = <<SetEvent(<<"d">>, Integer(2))>>
  /\ <<"b">> \notin DOMAIN environment
  /\ <<"c">> \notin DOMAIN environment
  /\ <<"f">> \notin DOMAIN environment
  /\ outcome = Ok(Noop)

\* C24: frame of a line.  During and after every eval call, whether it
\* returns Ok, returns an error or panics, no name bound when the call was
\* entered is removed; a name that was bound then and is not the target of
\* a set executed in the call holds the value it had; and a name bound
\* since is the target of such a set or is bound to Noop.
C24_FrameOfLine ==
  /\ DOMAIN before \subseteq DOMAIN environment
  /\ DOMAIN new \subseteq DOMAIN environment
  /\ \A n \in DOMAIN before \ SetNames(LineLog(trace)) :
       Binding(environment, n) = before[n]
  /\ \A n \in DOMAIN environment \ DOMAIN before :
       n \in SetNames(LineLog(trace)) \/ environment[n] = Noop

\* The second call of a session set one name, bound an unbound name by
\* reading it, and left a number an earlier line had stored.
C24_Witness ==
  /\ calls = 2
  /\ pc = "idle"
  /\ SetNames(LineLog(trace)) # {}
  /\ \E n \in DOMAIN before \ SetNames(LineLog(trace)) :
       /\ before[n].tag = "Integer"
       /\ environment[n] = before[n]
  /\ \E n \in DOMAIN environment \ DOMAIN before :
       /\ n \notin SetNames(LineLog(trace))
       /\ environment[n] = Noop
=============================================================================
